---- MODULE Spec2Model ----
(***************************************************************************)
(* Model of the lecture-video pipeline (transcribe_video.py: main and its  *)
(* stages working on the file-system cache) and of the web layer's         *)
(* background jobs (app.py: process_video, run_script, delete_report).     *)
(*                                                                         *)
(* Spec     the batch run main(), repeated, with delete_report requests    *)
(*          arriving at any moment on the same output directory.           *)
(* SpecWeb  process requests and the run_script jobs they start.           *)
(* SpecJobs SpecWeb with the files the processes of the jobs write.        *)
(* SpecFrames  one call of capture_screenshots, moment by moment, and the   *)
(*          rows generate_html makes of what it returns.                   *)
(* SpecTerms   one call of load_terms.                                     *)
(***************************************************************************)
EXTENDS Integers, Sequences, FiniteSets, TLC

\* ------------------------------------------------------------------ bounds
MaxTurns == 2       \* turns of main()'s for loop in one behaviour, over all its runs
MaxJobs == 2        \* background jobs accepted in one behaviour
MaxDeletes == 1     \* delete requests handled in one behaviour
MaxMoments == 11    \* key moments in one call of capture_screenshots
MaxStart == 1       \* start of the first key moment, in seconds
MaxDur == 20        \* end - start of a key moment, in seconds

\* ------------------------------------------------- file names and paths
\* A file of the Video directory, split as pathlib does: stem and suffix,
\* both as sequences of characters.
V1 == [stem |-> <<"a">>,           ext |-> <<".", "M", "P", "4">>]
V2 == [stem |-> <<"b", " ", "c">>, ext |-> <<".", "m", "k", "v">>]
Notes == [stem |-> <<"n">>,        ext |-> <<".", "t", "x", "t">>]
AllFiles == {V1, V2, Notes}

\* Path.name
Name(f) == f.stem \o f.ext

\* str.lower on the characters that occur in the suffixes
LowerChar(c) == CASE c = "M" -> "m" [] c = "P" -> "p" [] OTHER -> c
Lower(s) == [i \in 1..Len(s) |-> LowerChar(s[i])]

\* str.replace(' ', '_')
Replace(s) == [i \in 1..Len(s) |-> IF s[i] = " " THEN "_" ELSE s[i]]

video_extensions ==
    { <<".", "m", "p", "4">>, <<".", "m", "k", "v">>,
      <<".", "m", "o", "v">>, <<".", "a", "v", "i">> }

\* A filter with a fault seeded: every file of the directory is taken.
IsVideo_Any(f) == f.ext # << >>

\* the filter of the directory listing in main / get_videos
IsVideo(f) == Lower(f.ext) \in video_extensions

\* A path: directory components, base name (characters), fixed suffix.
Path(dir, base, suffix) == [dir |-> dir, base |-> base, suffix |-> suffix]

output_base_dir == <<"output">>
temp_dir == <<"temp_audio">>

json_file(v)      == Path(output_base_dir, v.stem, "_transcription.json")
audio_path(v)     == Path(temp_dir, v.stem, ".mp3")
screenshot_dir(v) == Path(output_base_dir \o <<"screenshots">>, Replace(Name(v)), "")
html_file(v)      == Path(output_base_dir, v.stem, "_report_v2.html")
quiz_json_file(v) == Path(output_base_dir, v.stem, "_quiz.json")
quiz_html_file(v) == Path(output_base_dir, Replace(Name(v)), "_quiz.html")

\* ------------------------------------------------------- file contents
\* Every content is a record with a field kind.
Absent  == [kind |-> "absent"]     \* no such file (a value for snapshots)
NA      == [kind |-> "na"]         \* not looked at yet (a value for snapshots)
Corrupt == [kind |-> "corrupt"]    \* truncated JSON left by a failed dump
None    == [kind |-> "none"]       \* Python variable not bound in this turn

\* What the distillation call may answer: summary and n key moments.
Distilled == { [kind |-> "distilled", summary |-> 1, n |-> 1],
               [kind |-> "distilled", summary |-> 2, n |-> 2] }
\* A question of a quiz: its type, the keys of its options, its answer list.
Question(type, answer) == [type |-> type, options |-> {"A", "B", "C", "D"}, answer |-> answer]

\* What the quiz call may answer: any JSON text that json.loads accepts.  One
\* answer that keeps to the format asked for in the prompt, and one that
\* does not.
Quizzes == { [kind |-> "quiz", title |-> 1,
              questions |-> << Question("single", << "A" >>),
                               Question("multiple", << "A", "C" >>) >>],
             [kind |-> "quiz", title |-> 2,
              questions |-> << Question("single", << "A", "B" >>),
                               Question("multiple", << "B", "E" >>) >>] }

AudioFull    == [kind |-> "audio"]
AudioPartial == [kind |-> "audio_partial"]

\* the decimal digits of a natural number
RECURSIVE Digits(_)
Digits(i) == IF i < 10 THEN << i >> ELSE Append(Digits(i \div 10), i % 10)

\* format(i, "03d"): zeros in front up to a width of 3, never a digit dropped
Pad3(i) == [j \in 1..(3 - Len(Digits(i))) |-> 0] \o Digits(i)

\* A name with a fault seeded: the index is not padded.
KeyName_Unpadded(i) == << "key_", Digits(i), ".jpg" >>

\* f"key_{i:03d}.jpg"
KeyName(i) == << "key_", Pad3(i), ".jpg" >>

\* ------------------------------------------------------ disk operations
Exists(d, p) == p \in DOMAIN d
WriteFile(d, p, c) == [q \in (DOMAIN d) \cup {p} |-> IF q = p THEN c ELSE d[q]]
Unlink(d, ps) == [q \in (DOMAIN d) \ ps |-> d[q]]
Content(d, p) == IF Exists(d, p) THEN d[p] ELSE Absent

EmptyDisk == [q \in {} |-> Absent]


\* ------------------------------------------------------------ variables
VARIABLES
    videoDir,          \* the files of the Video directory
    api_key,           \* MISTRAL_API_KEY is set, and not to the placeholder
    disk,              \* path -> content, for output/, temp_audio/ and the web output dirs
    pc,                \* main(): "idle", the stage about to run, "done" or "crashed"
    run,               \* number of batch runs started
    todo,              \* main(): the videos the for loop has not finished, current first
    processed_data,    \* main(): local of the current turn
    screenshot_paths,  \* main(): local of the current turn
    quiz_data,         \* main(): local of the current turn
    err,               \* per video, the origin of the exception that ended its turn in
                       \* the current run, or "none"
    calls,             \* per video, the stage calls made in the current run
    jsonAtTurn,        \* per video, <stem>_transcription.json as found when its turn started
    quizAtTurn,        \* per video, <stem>_quiz.json as found when its turn started
    quizAtStage,       \* per video, <stem>_quiz.json as found by the quiz stage
    prevJson,          \* per video, <stem>_transcription.json when the current run started
    remCur,            \* a cache file was removed since the current run started
    remPrev,           \* a cache file was removed during or after the previous run
    prevEnd,           \* how the previous run ended: "done", "crashed", or "none"
    found,             \* per video, what the frame selector, the report renderer and the
                       \* quiz renderer found at their output path in the current run
    written,           \* per video, the artifacts main has written in the current run
    resp,              \* the last response of a web handler
    deletes,           \* number of delete requests handled
    jobs,              \* the background tasks added by process_video, in order
    \* one call of capture_screenshots, followed by the rows of generate_html
    video_duration,    \* video.duration
    segments,          \* the key moments passed: a sequence of [start, end]
    frame_std,         \* the picture: which richness the frame at a time has
    shot_files,        \* the screenshot directory: name -> time of the frame, or NoDir
    fpc,               \* "idle", "loop", "returned" or "rendered"
    candidate_times,   \* local of the last turn of the loop over the moments
    best_time,         \* local of the last turn of the loop over the moments
    best_score,        \* local of the last turn of the loop over the moments
    shot_paths,        \* capture_screenshots: its list screenshot_paths
    rows,              \* generate_html: the image name of every row
    \* one call of load_terms
    terms_file,        \* terms.json: its table, a sequence of key and entry, or NoFile
    video_name,        \* the argument of load_terms
    terms              \* what load_terms returned, or NotCalled

fvars == << video_duration, segments, frame_std, shot_files, fpc, candidate_times,
            best_time, best_score, shot_paths, rows >>
tvars == << terms_file, video_name, terms >>

vars == << fvars, tvars, videoDir, api_key, disk, pc, run, todo, processed_data, screenshot_paths,
           quiz_data, err, calls, jsonAtTurn, quizAtTurn, quizAtStage,
           prevJson, remCur, remPrev, prevEnd, found, written, resp, deletes, jobs >>

\* The Video directories a behaviour may start with.
VideoDirs == { {V1, V2, Notes}, {V2}, {Notes} }

Stages == {"extract", "transcribe", "distill", "shots", "report", "quiz", "quizpage"}
ZeroCalls == [s \in Stages |-> 0]

Min(a, b) == IF a < b THEN a ELSE b
Max(a, b) == IF a > b THEN a ELSE b

Perms(S) == { s \in [1..Cardinality(S) -> S] : \A x \in S : \E i \in 1..Cardinality(S) : s[i] = x }

\* every order in which a directory listing may yield some of the files
AllOrders == UNION {Perms(S) : S \in SUBSET AllFiles}

Called(v, s) == calls' = [calls EXCEPT ![v][s] = @ + 1]

\* the artifacts of a video that main writes
Artifacts == {"json", "shots", "report", "quizjson", "quizpage"}
NothingFound == [shots |-> NA, report |-> NA, quizpage |-> NA]

\* main has written the artifact of v, or its write has failed
Wrote(v, artifact, ok) ==
    written' = IF ok THEN [written EXCEPT ![v] = @ \cup {artifact}] ELSE written

\* an exception raised in the turn of the current video
Raised(tag) == err' = [err EXCEPT ![Head(todo)] = tag]

\* nothing has run yet
AtRest ==
    /\ disk = EmptyDisk
    /\ pc = "idle"
    /\ run = 0
    /\ todo = << >>
    /\ processed_data = None
    /\ screenshot_paths = << >>
    /\ quiz_data = None
    /\ err = [v \in AllFiles |-> "none"]
    /\ calls = [v \in AllFiles |-> ZeroCalls]
    /\ jsonAtTurn = [v \in AllFiles |-> NA]
    /\ quizAtTurn = [v \in AllFiles |-> NA]
    /\ quizAtStage = [v \in AllFiles |-> NA]
    /\ prevJson = [v \in AllFiles |-> NA]
    /\ remCur = FALSE
    /\ remPrev = FALSE
    /\ prevEnd = "none"
    /\ found = [v \in AllFiles |-> NothingFound]
    /\ written = [v \in AllFiles |-> {}]
    /\ resp = "none"
    /\ deletes = 0
    /\ jobs = << >>

\* no call of capture_screenshots is looked at
NoDir == [kind |-> "nodir"]
FramesAtRest ==
    /\ video_duration = 0
    /\ segments = << >>
    /\ frame_std = 0
    /\ shot_files = NoDir
    /\ fpc = "idle"
    /\ candidate_times = << >>
    /\ best_time = 0
    /\ best_score = 0
    /\ shot_paths = << >>
    /\ rows = << >>

\* no call of load_terms is looked at
NoFile == [kind |-> "nofile"]
NotCalled == [kind |-> "notcalled"]
TermsAtRest ==
    /\ terms_file = NoFile
    /\ video_name = << >>
    /\ terms = NotCalled

Init ==
    /\ videoDir \in VideoDirs
    /\ api_key \in BOOLEAN
    /\ AtRest
    /\ FramesAtRest
    /\ TermsAtRest

\* ------------------------------------------------------- main(): the batch
\* main, from its entry to the head of the for loop.
StartRun(order) ==
    /\ pc \in {"idle", "done", "crashed"}
    /\ order \in Perms({f \in videoDir : IsVideo(f)})
    /\ (run + 1) * Max(1, Len(order)) <= MaxTurns
    /\ run' = run + 1
    /\ IF ~api_key \/ order = << >>
         THEN pc' = "done" /\ todo' = << >>
         ELSE pc' = "loop" /\ todo' = order
    /\ processed_data' = None
    /\ screenshot_paths' = << >>
    /\ quiz_data' = None
    /\ err' = [v \in AllFiles |-> "none"]
    /\ calls' = [v \in AllFiles |-> ZeroCalls]
    /\ jsonAtTurn' = [v \in AllFiles |-> NA]
    /\ quizAtTurn' = [v \in AllFiles |-> NA]
    /\ quizAtStage' = [v \in AllFiles |-> NA]
    /\ prevJson' = [v \in AllFiles |-> Content(disk, json_file(v))]
    /\ remPrev' = remCur
    /\ prevEnd' = IF run = 0 THEN "none" ELSE pc
    /\ remCur' = FALSE
    /\ found' = [v \in AllFiles |-> NothingFound]
    /\ written' = [v \in AllFiles |-> {}]
    /\ UNCHANGED << fvars, tvars, videoDir, api_key, disk, resp, deletes, jobs >>

\* The for loop goes on to the next video, or ends.  The locals of the turn
\* are dead from here on: every later turn binds them before it reads them.
EndTurn ==
    /\ todo' = Tail(todo)
    /\ pc' = IF Tail(todo) = << >> THEN "done" ELSE "loop"
    /\ processed_data' = None
    /\ screenshot_paths' = << >>
    /\ quiz_data' = None

\* except Exception ... continue of the first try, with its finally.
SkipVideo(tag, d) ==
    /\ Raised(tag)
    /\ disk' = Unlink(d, {audio_path(Head(todo))})
    /\ EndTurn

\* A handler with a fault seeded: it rolls the cached JSON of the video back.
RenderFailed_Rollback(tag, d) ==
    /\ Raised(tag)
    /\ disk' = Unlink(d, {json_file(Head(todo)), quiz_json_file(Head(todo))})
    /\ EndTurn

\* A handler with a fault seeded: it takes the report of the video back.
RenderFailed_DropReport(tag, d) ==
    /\ Raised(tag)
    /\ disk' = Unlink(d, {html_file(Head(todo))})
    /\ EndTurn

\* except Exception of the second try.
RenderFailed(tag, d) ==
    /\ Raised(tag)
    /\ disk' = d
    /\ EndTurn

\* Variants of the cache check with a fault seeded, used to test the theorems.
\* The cached JSON is loaded, but the turn goes on to extraction all the same.
CheckCache_NoSkip ==
    /\ pc = "loop"
    /\ LET v == Head(todo) IN
       /\ jsonAtTurn' = [jsonAtTurn EXCEPT ![v] = Content(disk, json_file(v))]
       /\ quizAtTurn' = [quizAtTurn EXCEPT ![v] = Content(disk, quiz_json_file(v))]
       /\ IF Exists(disk, json_file(v)) /\ disk[json_file(v)] = Corrupt
            THEN /\ pc' = "crashed"
                 /\ Raised("cacheload")
                 /\ UNCHANGED processed_data
            ELSE /\ processed_data' = IF Exists(disk, json_file(v))
                                        THEN disk[json_file(v)] ELSE processed_data
                 /\ pc' = "extract"
                 /\ UNCHANGED err
    /\ UNCHANGED << fvars, tvars, videoDir, api_key, found, written, disk, run, todo, screenshot_paths, quiz_data, calls,
                    quizAtStage, prevJson, remCur, remPrev, prevEnd, resp, deletes, jobs >>

\* The cache is looked up under the file name instead of the stem.
CheckCache_WrongKey ==
    /\ pc = "loop"
    /\ LET v == Head(todo)
           key == Path(output_base_dir, Name(v), "_transcription.json")
       IN
       /\ jsonAtTurn' = [jsonAtTurn EXCEPT ![v] = Content(disk, json_file(v))]
       /\ quizAtTurn' = [quizAtTurn EXCEPT ![v] = Content(disk, quiz_json_file(v))]
       /\ IF Exists(disk, key)
            THEN /\ processed_data' = disk[key]
                 /\ pc' = "shots"
                 /\ UNCHANGED err
            ELSE /\ pc' = "extract"
                 /\ UNCHANGED << err, processed_data >>
    /\ UNCHANGED << fvars, tvars, videoDir, api_key, found, written, disk, run, todo, screenshot_paths, quiz_data, calls,
                    quizAtStage, prevJson, remCur, remPrev, prevEnd, resp, deletes, jobs >>

\* A cache check with a fault seeded: a file that cannot be parsed counts as
\* a miss, and the turn goes on to extraction.
CheckCache_Recompute ==
    /\ pc = "loop"
    /\ LET v == Head(todo) IN
       /\ jsonAtTurn' = [jsonAtTurn EXCEPT ![v] = Content(disk, json_file(v))]
       /\ quizAtTurn' = [quizAtTurn EXCEPT ![v] = Content(disk, quiz_json_file(v))]
       /\ IF Exists(disk, json_file(v)) /\ disk[json_file(v)] # Corrupt
            THEN /\ processed_data' = disk[json_file(v)]
                 /\ pc' = "shots"
            ELSE /\ pc' = "extract"
                 /\ UNCHANGED processed_data
       /\ UNCHANGED err
    /\ UNCHANGED << fvars, tvars, videoDir, api_key, found, written, disk, run, todo, screenshot_paths, quiz_data, calls,
                    quizAtStage, prevJson, remCur, remPrev, prevEnd, resp, deletes, jobs >>

\* The head of a turn: the cache check on <stem>_transcription.json.
CheckCache ==
    /\ pc = "loop"
    /\ LET v == Head(todo) IN
       /\ jsonAtTurn' = [jsonAtTurn EXCEPT ![v] = Content(disk, json_file(v))]
       /\ quizAtTurn' = [quizAtTurn EXCEPT ![v] = Content(disk, quiz_json_file(v))]
       /\ IF Exists(disk, json_file(v))
            THEN IF disk[json_file(v)] = Corrupt
                   THEN \* json.load raises outside every try
                        /\ pc' = "crashed"
                        /\ Raised("cacheload")
                        /\ UNCHANGED processed_data
                   ELSE /\ processed_data' = disk[json_file(v)]
                        /\ pc' = "shots"
                        /\ UNCHANGED err
            ELSE /\ pc' = "extract"
                 /\ UNCHANGED err
                 /\ UNCHANGED processed_data
    /\ UNCHANGED << fvars, tvars, videoDir, api_key, found, written, disk, run, todo, screenshot_paths, quiz_data, calls,
                    quizAtStage, prevJson, remCur, remPrev, prevEnd, resp, deletes, jobs >>

\* extract_audio, called before the try statement.
ExtractAudio(outcome) ==
    /\ pc = "extract"
    /\ outcome \in {"ok", "fail", "fail_partial"}
    /\ LET v == Head(todo) IN
       /\ Called(v, "extract")
       /\ CASE outcome = "ok" ->
                 /\ disk' = WriteFile(disk, audio_path(v), AudioFull)
                 /\ pc' = "transcribe"
                 /\ UNCHANGED err
            [] outcome = "fail" ->
                 \* no audio track, unreadable container: nothing written
                 /\ pc' = "crashed"
                 /\ Raised("extract")
                 /\ UNCHANGED disk
            [] outcome = "fail_partial" ->
                 \* write_audiofile fails part-way
                 /\ disk' = WriteFile(disk, audio_path(v), AudioPartial)
                 /\ pc' = "crashed"
                 /\ Raised("extract")
    /\ UNCHANGED << fvars, tvars, videoDir, api_key, found, written, run, todo, processed_data, screenshot_paths, quiz_data,
                    jsonAtTurn, quizAtTurn, quizAtStage, prevJson, remCur, remPrev, prevEnd,
                    resp, deletes, jobs >>

\* transcribe_with_mistral
Transcribe(ok) ==
    /\ pc = "transcribe"
    /\ Called(Head(todo), "transcribe")
    /\ IF ok
         THEN /\ pc' = "distill"
              /\ UNCHANGED << disk, todo, processed_data, screenshot_paths, quiz_data, err >>
         ELSE SkipVideo("transcribe", disk)
    /\ UNCHANGED << fvars, tvars, videoDir, api_key, found, written, run, jsonAtTurn, quizAtTurn, quizAtStage, prevJson,
                    remCur, remPrev, prevEnd, resp, deletes, jobs >>

\* A distillation with a fault seeded: the cache file is opened before the
\* answer is parsed, so a failure leaves a file behind.
Distill_SaveFirst(ok, d) ==
    /\ pc = "distill"
    /\ d \in Distilled
    /\ Called(Head(todo), "distill")
    /\ IF ok
         THEN /\ processed_data' = d
              /\ pc' = "save"
              /\ UNCHANGED << disk, todo, screenshot_paths, quiz_data, err >>
         ELSE SkipVideo("distill", WriteFile(disk, json_file(Head(todo)), Corrupt))
    /\ UNCHANGED << fvars, tvars, videoDir, api_key, found, written, run, jsonAtTurn, quizAtTurn, quizAtStage, prevJson,
                    remCur, remPrev, prevEnd, resp, deletes, jobs >>

\* process_and_summarize: the chat call and json.loads of its answer
Distill(ok, d) ==
    /\ pc = "distill"
    /\ d \in Distilled
    /\ Called(Head(todo), "distill")
    /\ IF ok
         THEN /\ processed_data' = d
              /\ pc' = "save"
              /\ UNCHANGED << disk, todo, screenshot_paths, quiz_data, err >>
         ELSE SkipVideo("distill", disk)
    /\ UNCHANGED << fvars, tvars, videoDir, api_key, found, written, run, jsonAtTurn, quizAtTurn, quizAtStage, prevJson,
                    remCur, remPrev, prevEnd, resp, deletes, jobs >>

\* the write of the cache file, then the finally of the try
SaveJson(outcome) ==
    /\ pc = "save"
    /\ outcome \in {"ok", "fail", "fail_partial"}
    /\ LET v == Head(todo) IN
       CASE outcome = "ok" ->
              /\ disk' = Unlink(WriteFile(disk, json_file(v), processed_data), {audio_path(v)})
              /\ pc' = "shots"
              /\ UNCHANGED << todo, processed_data, screenshot_paths, quiz_data, err >>
         [] outcome = "fail" ->
              \* open fails: no file
              SkipVideo("cachewrite", disk)
         [] outcome = "fail_partial" ->
              \* json.dump fails after open created the file
              SkipVideo("cachewrite", WriteFile(disk, json_file(v), Corrupt))
    /\ Wrote(Head(todo), "json", outcome = "ok")
    /\ UNCHANGED << fvars, tvars, videoDir, api_key, found, run, calls, jsonAtTurn, quizAtTurn, quizAtStage, prevJson,
                    remCur, remPrev, prevEnd, resp, deletes, jobs >>

\* A directory is a record of its file names.
Dir(files) == [kind |-> "dir", files |-> files]
FilesOf(d, p) == IF Exists(d, p) THEN d[p].files ELSE {}

\* A rebuild with a fault seeded: the directory is made when it is missing,
\* and never removed.
Rebuild_Keep(d, p) == WriteFile(d, p, Dir(FilesOf(d, p)))

\* the head of capture_screenshots: shutil.rmtree when the directory exists,
\* then mkdir
Rebuild(d, p) == WriteFile(Unlink(d, {p}), p, Dir({}))

\* video.save_frame into the directory, once per name
SaveFrames(d, p, names) == WriteFile(d, p, Dir(FilesOf(d, p) \cup names))

\* capture_screenshots: the directory is removed and made again, then one
\* frame per key moment is saved.  A failure (the video cannot be opened, a
\* frame cannot be decoded) leaves the frames saved before it.
CaptureScreenshots(saved) ==
    /\ pc = "shots"
    /\ LET v == Head(todo)
           n == processed_data.n
           after(k) == SaveFrames(Rebuild(disk, screenshot_dir(v)), screenshot_dir(v),
                                  {KeyName(i) : i \in 0..(k - 1)})
       IN
       /\ saved \in 0..n
       /\ Called(v, "shots")
       /\ found' = [found EXCEPT ![v].shots = Content(disk, screenshot_dir(v))]
       /\ Wrote(v, "shots", saved = n)
       /\ IF saved = n
            THEN /\ disk' = after(n)
                 /\ screenshot_paths' = [i \in 1..n |-> KeyName(i - 1)]
                 /\ pc' = "html"
                 /\ UNCHANGED << todo, processed_data, quiz_data, err >>
            ELSE RenderFailed("shots", after(saved))
    /\ UNCHANGED << fvars, tvars, videoDir, api_key, run, jsonAtTurn, quizAtTurn, quizAtStage, prevJson,
                    remCur, remPrev, prevEnd, resp, deletes, jobs >>

\* generate_html: one row per pair of zip(segments, screenshot_paths)
ReportOf(data, paths) ==
    [kind |-> "report", summary |-> data.summary,
     rows |-> [i \in 1..Min(data.n, Len(paths)) |-> paths[i]]]

\* A renderer with a fault seeded: a report that exists is left as it is.
GenerateHtml_IfMissing(ok) ==
    /\ pc = "html"
    /\ Called(Head(todo), "report")
    /\ found' = [found EXCEPT ![Head(todo)].report = Content(disk, html_file(Head(todo)))]
    /\ Wrote(Head(todo), "report", ok /\ ~Exists(disk, html_file(Head(todo))))
    /\ IF ok
         THEN /\ disk' = IF Exists(disk, html_file(Head(todo)))
                           THEN disk
                           ELSE WriteFile(disk, html_file(Head(todo)),
                                          ReportOf(processed_data, screenshot_paths))
              /\ pc' = "quiz"
              /\ UNCHANGED << todo, processed_data, screenshot_paths, quiz_data, err >>
         ELSE RenderFailed("html", disk)
    /\ UNCHANGED << fvars, tvars, videoDir, api_key, run, jsonAtTurn, quizAtTurn, quizAtStage, prevJson,
                    remCur, remPrev, prevEnd, resp, deletes, jobs >>

GenerateHtml(ok) ==
    /\ pc = "html"
    /\ Called(Head(todo), "report")
    /\ found' = [found EXCEPT ![Head(todo)].report = Content(disk, html_file(Head(todo)))]
    /\ Wrote(Head(todo), "report", ok)
    /\ IF ok
         THEN /\ disk' = WriteFile(disk, html_file(Head(todo)),
                                   ReportOf(processed_data, screenshot_paths))
              /\ pc' = "quiz"
              /\ UNCHANGED << todo, processed_data, screenshot_paths, quiz_data, err >>
         ELSE RenderFailed("html", disk)
    /\ UNCHANGED << fvars, tvars, videoDir, api_key, run, jsonAtTurn, quizAtTurn, quizAtStage, prevJson,
                    remCur, remPrev, prevEnd, resp, deletes, jobs >>

\* Variants of the quiz cache check with a fault seeded.
\* The cached quiz is loaded, but the quiz is synthesized all the same.
CheckQuizCache_NoSkip ==
    /\ pc = "quiz"
    /\ LET v == Head(todo) IN
       /\ quizAtStage' = [quizAtStage EXCEPT ![v] = Content(disk, quiz_json_file(v))]
       /\ IF Exists(disk, quiz_json_file(v)) /\ disk[quiz_json_file(v)] = Corrupt
            THEN RenderFailed("quizload", disk)
            ELSE /\ quiz_data' = Content(disk, quiz_json_file(v))
                 /\ pc' = "genquiz"
                 /\ UNCHANGED << disk, todo, processed_data, screenshot_paths, err >>
    /\ UNCHANGED << fvars, tvars, videoDir, api_key, found, written, run, calls, jsonAtTurn, quizAtTurn, prevJson,
                    remCur, remPrev, prevEnd, resp, deletes, jobs >>

\* The quiz cache is looked up under the sanitized file name instead of the stem.
CheckQuizCache_WrongKey ==
    /\ pc = "quiz"
    /\ LET v == Head(todo)
           key == Path(output_base_dir, Replace(Name(v)), "_quiz.json")
       IN
       /\ quizAtStage' = [quizAtStage EXCEPT ![v] = Content(disk, quiz_json_file(v))]
       /\ IF Exists(disk, key)
            THEN /\ quiz_data' = disk[key]
                 /\ pc' = "quizhtml"
                 /\ UNCHANGED << disk, todo, processed_data, screenshot_paths, err >>
            ELSE /\ pc' = "genquiz"
                 /\ UNCHANGED << disk, todo, processed_data, screenshot_paths, quiz_data, err >>
    /\ UNCHANGED << fvars, tvars, videoDir, api_key, found, written, run, calls, jsonAtTurn, quizAtTurn, prevJson,
                    remCur, remPrev, prevEnd, resp, deletes, jobs >>

\* The cache check of the quiz stage on <stem>_quiz.json.
CheckQuizCache ==
    /\ pc = "quiz"
    /\ LET v == Head(todo) IN
       /\ quizAtStage' = [quizAtStage EXCEPT ![v] = Content(disk, quiz_json_file(v))]
       /\ IF Exists(disk, quiz_json_file(v))
            THEN IF disk[quiz_json_file(v)] = Corrupt
                   THEN RenderFailed("quizload", disk)
                   ELSE /\ quiz_data' = disk[quiz_json_file(v)]
                        /\ pc' = "quizhtml"
                        /\ UNCHANGED << disk, todo, processed_data, screenshot_paths, err >>
            ELSE /\ pc' = "genquiz"
                 /\ UNCHANGED << disk, todo, processed_data, screenshot_paths, quiz_data, err >>
    /\ UNCHANGED << fvars, tvars, videoDir, api_key, found, written, run, calls, jsonAtTurn, quizAtTurn, prevJson,
                    remCur, remPrev, prevEnd, resp, deletes, jobs >>

\* generate_quiz: the chat call and json.loads of its answer
GenerateQuiz(ok, q) ==
    /\ pc = "genquiz"
    /\ q \in Quizzes
    /\ Called(Head(todo), "quiz")
    /\ IF ok
         THEN /\ quiz_data' = q
              /\ pc' = "savequiz"
              /\ UNCHANGED << disk, todo, processed_data, screenshot_paths, err >>
         ELSE RenderFailed("quizgen", disk)
    /\ UNCHANGED << fvars, tvars, videoDir, api_key, found, written, run, jsonAtTurn, quizAtTurn, quizAtStage, prevJson,
                    remCur, remPrev, prevEnd, resp, deletes, jobs >>

\* the write of <stem>_quiz.json
SaveQuiz(outcome) ==
    /\ pc = "savequiz"
    /\ outcome \in {"ok", "fail", "fail_partial"}
    /\ LET v == Head(todo) IN
       CASE outcome = "ok" ->
              /\ disk' = WriteFile(disk, quiz_json_file(v), quiz_data)
              /\ pc' = "quizhtml"
              /\ UNCHANGED << todo, processed_data, screenshot_paths, quiz_data, err >>
         [] outcome = "fail" ->
              RenderFailed("quizwrite", disk)
         [] outcome = "fail_partial" ->
              RenderFailed("quizwrite", WriteFile(disk, quiz_json_file(v), Corrupt))
    /\ Wrote(Head(todo), "quizjson", outcome = "ok")
    /\ UNCHANGED << fvars, tvars, videoDir, api_key, found, run, calls, jsonAtTurn, quizAtTurn, quizAtStage, prevJson,
                    remCur, remPrev, prevEnd, resp, deletes, jobs >>

\* generate_quiz_html, the last statement of a turn
QuizPageOf(q) == [kind |-> "quizpage", quiz |-> q]

GenerateQuizHtml(ok) ==
    /\ pc = "quizhtml"
    /\ Called(Head(todo), "quizpage")
    /\ found' = [found EXCEPT ![Head(todo)].quizpage = Content(disk, quiz_html_file(Head(todo)))]
    /\ Wrote(Head(todo), "quizpage", ok)
    /\ IF ok
         THEN /\ disk' = WriteFile(disk, quiz_html_file(Head(todo)), QuizPageOf(quiz_data))
              /\ UNCHANGED err
              /\ EndTurn
         ELSE RenderFailed("quizhtml", disk)
    /\ UNCHANGED << fvars, tvars, videoDir, api_key, run, jsonAtTurn, quizAtTurn, quizAtStage, prevJson,
                    remCur, remPrev, prevEnd, resp, deletes, jobs >>

\* ------------------------------------------------- app.py: delete_report
ModelKeys == {"output", "output_mistral", "output_groq"}
RequestedKeys == {"output", "bogus"}
RequestedStems == {V1.stem, V2.stem}

CacheSuffixes == {"_quiz.json", "_transcription.json"}
DeletePatterns == {"_report_v2.html", "_quiz.html"} \cup CacheSuffixes

DeleteReport(model_key, video_stem) ==
    /\ model_key \in RequestedKeys
    /\ video_stem \in RequestedStems
    /\ deletes < MaxDeletes
    /\ deletes' = deletes + 1
    /\ IF model_key \notin ModelKeys
         THEN /\ resp' = "400"
              /\ UNCHANGED << disk, remCur >>
         ELSE LET d == << model_key >>
                  files == {Path(d, video_stem, s) : s \in DeletePatterns}
                  shots == Path(d \o <<"screenshots">>, Replace(video_stem), "")
              IN
              /\ disk' = Unlink(disk, files \cup {shots})
              /\ remCur' = (remCur \/ \E s \in CacheSuffixes : Exists(disk, Path(d, video_stem, s)))
              /\ resp' = "deleted"
    /\ UNCHANGED << fvars, tvars, videoDir, api_key, found, written, pc, run, todo, processed_data, screenshot_paths, quiz_data,
                    err, calls, jsonAtTurn, quizAtTurn, quizAtStage, prevJson, remPrev, prevEnd, jobs >>

\* ------------------------------------------------------ the batch, as a whole
Next ==
    \/ \E order \in AllOrders : StartRun(order)
    \/ CheckCache
    \/ \E outcome \in {"ok", "fail", "fail_partial"} : ExtractAudio(outcome)
    \/ \E ok \in BOOLEAN : Transcribe(ok)
    \/ \E ok \in BOOLEAN, d \in Distilled : Distill(ok, d)
    \/ \E outcome \in {"ok", "fail", "fail_partial"} : SaveJson(outcome)
    \/ \E saved \in 0..2 : CaptureScreenshots(saved)
    \/ \E ok \in BOOLEAN : GenerateHtml(ok)
    \/ CheckQuizCache
    \/ \E ok \in BOOLEAN, q \in Quizzes : GenerateQuiz(ok, q)
    \/ \E outcome \in {"ok", "fail", "fail_partial"} : SaveQuiz(outcome)
    \/ \E ok \in BOOLEAN : GenerateQuizHtml(ok)
    \/ \E model_key \in RequestedKeys, video_stem \in RequestedStems : DeleteReport(model_key, video_stem)

Spec == Init /\ [][Next]_vars


\* ------------------------------------------ capture_screenshots, step by step
\* Time is counted in ticks of 1/60 s: with starts and ends in whole seconds
\* every candidate time is a whole number of ticks.
Second == 60
Tenth == 6

\* int(a / b) for b > 0: the quotient, rounded towards zero
Trunc(a, b) == IF a >= 0 THEN a \div b ELSE -((-a) \div b)

\* A count with a fault seeded: the ceiling is 6.
NumCandidates_Max6(duration) == Min(6, Max(2, Trunc(duration, 3 * Second)))

\* num_candidates = min(5, max(2, int(duration / 3)))
NumCandidates(duration) == Min(5, Max(2, Trunc(duration, 3 * Second)))

\* A candidate time with a fault seeded: it is not held below the end of the video.
CandidateTime_Unclamped(start, duration, k, num_candidates, vdur) ==
    start + (duration * (k + 1)) \div (num_candidates + 1)

\* t = start + duration * (k + 1) / (num_candidates + 1); t = min(t, video.duration - 0.1)
CandidateTime(start, duration, k, num_candidates, vdur) ==
    Min(start + (duration * (k + 1)) \div (num_candidates + 1), vdur - Tenth)

\* the list candidate_times of a moment, k = 0 first
CandidateTimes(seg, vdur) ==
    LET duration == seg.end - seg.start
        num_candidates == NumCandidates(duration)
    IN [j \in 1..num_candidates |->
            CandidateTime(seg.start, duration, j - 1, num_candidates, vdur)]

\* float(np.std(video.get_frame(t))) for the pictures a behaviour may work on:
\* one picture all along, pictures that change every second, and pictures
\* that change every tenth of a second
Pictures == 1..3
Std(f, t) == CASE f = 1 -> 7
               [] f = 2 -> (t \div Second) % 3
               [] OTHER -> (t \div Tenth) % 5

\* A comparison with a fault seeded: an equal score replaces the best one.
Better_OrEqual(score, best) == score >= best

\* if score > best_score
Better(score, best) == score > best

\* the loop over candidate_times, from its j-th element on
RECURSIVE Scan(_, _, _, _, _)
Scan(times, j, bt, bs, f) ==
    IF j > Len(times)
      THEN [time |-> bt, score |-> bs]
      ELSE IF Better(Std(f, times[j]), bs)
             THEN Scan(times, j + 1, times[j], Std(f, times[j]), f)
             ELSE Scan(times, j + 1, bt, bs, f)

\* best_time = candidate_times[0]; best_score = -1; then the loop
BestFrame(times, f) == Scan(times, 1, times[1], -1, f)

\* the frames of a directory after video.save_frame(name, t)
SaveFrame(frames, name, t) == {x \in frames : x.name # name} \cup {[name |-> name, t |-> t]}

FramesFrame ==
    UNCHANGED << tvars, videoDir, api_key, disk, pc, run, todo, processed_data,
                 screenshot_paths, quiz_data, err, calls, jsonAtTurn, quizAtTurn, quizAtStage,
                 prevJson, remCur, remPrev, prevEnd, found, written, resp, deletes, jobs >>

\* capture_screenshots up to its loop: the directory is removed and made again
capture_screenshots ==
    /\ fpc = "idle"
    /\ shot_files' = [kind |-> "dir", frames |-> {}]
    /\ shot_paths' = << >>
    /\ fpc' = "loop"
    /\ UNCHANGED << video_duration, segments, frame_std, candidate_times, best_time,
                    best_score, rows >>
    /\ FramesFrame

\* one turn of the loop over the moments
SelectFrame ==
    /\ fpc = "loop"
    /\ Len(shot_paths) < Len(segments)
    /\ LET i == Len(shot_paths)
           times == CandidateTimes(segments[i + 1], video_duration)
           best == BestFrame(times, frame_std)
       IN
       /\ candidate_times' = times
       /\ best_time' = best.time
       /\ best_score' = best.score
       /\ shot_files' = [shot_files EXCEPT !.frames = SaveFrame(@, KeyName(i), best.time)]
       /\ shot_paths' = Append(shot_paths, KeyName(i))
    /\ UNCHANGED << video_duration, segments, frame_std, fpc, rows >>
    /\ FramesFrame

\* the loop is over: return screenshot_paths
ReturnPaths ==
    /\ fpc = "loop"
    /\ Len(shot_paths) = Len(segments)
    /\ fpc' = "returned"
    /\ UNCHANGED << video_duration, segments, frame_std, shot_files, candidate_times,
                    best_time, best_score, shot_paths, rows >>
    /\ FramesFrame

\* generate_html on the moments and the returned list
RenderRows ==
    /\ fpc = "returned"
    /\ rows' = ReportOf([summary |-> 0, n |-> Len(segments)], shot_paths).rows
    /\ fpc' = "rendered"
    /\ UNCHANGED << video_duration, segments, frame_std, shot_files, candidate_times,
                    best_time, best_score, shot_paths >>
    /\ FramesFrame

\* The calls looked at: n moments of one duration, all over the same interval
\* or one after the other, on a short, a middle and a long video, over a
\* directory that is missing or holds frames of an earlier call.
VideoDurations == {1 * Second, 25 * Second, 100 * Second}
Durations == (-1)..MaxDur
MomentLists ==
    { [j \in 1..n |-> [start |-> (s + (j - 1) * step) * Second,
                       end   |-> (s + (j - 1) * step + d) * Second]] :
        n \in 0..MaxMoments, s \in 0..MaxStart, d \in Durations, step \in {0, MaxDur} }
StaleFrames == [kind |-> "dir", frames |-> {[name |-> KeyName(0), t |-> 0],
                                            [name |-> KeyName(MaxMoments + 1), t |-> 0]}]

InitFrames ==
    /\ videoDir = {Notes}
    /\ api_key = FALSE
    /\ AtRest
    /\ TermsAtRest
    /\ video_duration \in VideoDurations
    /\ segments \in MomentLists
    /\ frame_std \in Pictures
    /\ shot_files \in {NoDir, StaleFrames}
    /\ fpc = "idle"
    /\ candidate_times = << >>
    /\ best_time = 0
    /\ best_score = 0
    /\ shot_paths = << >>
    /\ rows = << >>

NextFrames ==
    \/ capture_screenshots
    \/ SelectFrame
    \/ ReturnPaths
    \/ RenderRows

SpecFrames == InitFrames /\ [][NextFrames]_vars

\* ------------------------------------------------------------ load_terms
\* Keys and video names are sequences of characters.
KeySafety == << "s", "a", "f", "e", "t", "y" >>
KeyIntro == << "i", "n", "t", "r", "o" >>
KeyDefault == << "d", "e", "f", "a", "u", "l", "t" >>
KeyLab == << "l", "a", "b" >>
IntroSafetyLecture == << "i", "n", "t", "r", "o", "_", "s", "a", "f", "e", "t", "y", "_", "l", "e", "c", "t", "u", "r", "e", ".", "m", "p", "4" >>
Welding == << "w", "e", "l", "d", "i", "n", "g", ".", "m", "p", "4" >>
SafetyOnly == << "s", "a", "f", "e", "t", "y", ".", "m", "k", "v" >>

GlossaryKeys == {KeySafety, KeyIntro, KeyDefault, KeyLab}
VideoNames == {IntroSafetyLecture, Welding, SafetyOnly}

\* {"corrections": {}, "key_terms": [], "topic_hint": ""}
EmptyGlossary == [kind |-> "glossary", corrections |-> {}, key_terms |-> << >>, topic_hint |-> << >>]

\* the entry terms.json holds under a key
EntryOf(key) == [kind |-> "glossary", corrections |-> {key}, key_terms |-> << key >>, topic_hint |-> key]

\* terms.json as json.load yields it: the keys in the order of the file
TableOf(keys) == [kind |-> "table", items |-> [j \in 1..Len(keys) |-> [key |-> keys[j], terms |-> EntryOf(keys[j])]]]
Malformed == [kind |-> "malformed"]     \* the file is not a JSON object
TermsRaised == [kind |-> "raised"]      \* load_terms was left by an exception

\* key in video_name
Occurs(key, name) ==
    \E i \in 0..(Len(name) - Len(key)) : SubSeq(name, i + 1, i + Len(key)) = key

\* A lookup with a fault seeded: a missing key raises.
GetDefault_KeyError(items) ==
    IF \E j \in 1..Len(items) : items[j].key = KeyDefault
      THEN (CHOOSE x \in {items[j] : j \in 1..Len(items)} : x.key = KeyDefault).terms
      ELSE TermsRaised

\* all_terms.get("default", {"corrections": {}, "key_terms": [], "topic_hint": ""})
GetDefault(items) ==
    IF \E j \in 1..Len(items) : items[j].key = KeyDefault
      THEN (CHOOSE x \in {items[j] : j \in 1..Len(items)} : x.key = KeyDefault).terms
      ELSE EmptyGlossary

\* A matcher with a fault seeded: the longest key that occurs wins.
Match_Longest(items, j, name) ==
    LET hits == {x \in {items[k] : k \in 1..Len(items)} :
                    x.key # KeyDefault /\ Occurs(x.key, name)}
    IN IF hits = {}
         THEN GetDefault(items)
         ELSE (CHOOSE x \in hits : \A y \in hits : Len(y.key) <= Len(x.key)).terms

\* the for loop over all_terms.items(), from its j-th pair on, and what
\* follows the loop
RECURSIVE Match(_, _, _)
Match(items, j, name) ==
    IF j > Len(items)
      THEN GetDefault(items)
      ELSE IF items[j].key = KeyDefault
             THEN Match(items, j + 1, name)
             ELSE IF Occurs(items[j].key, name)
                    THEN items[j].terms
                    ELSE Match(items, j + 1, name)

load_terms ==
    /\ terms = NotCalled
    /\ terms' = CASE terms_file = NoFile -> EmptyGlossary
                  [] terms_file = Malformed -> TermsRaised
                  [] OTHER -> Match(terms_file.items, 1, video_name)
    /\ UNCHANGED << terms_file, video_name >>
    /\ UNCHANGED << fvars, videoDir, api_key, disk, pc, run, todo, processed_data,
                    screenshot_paths, quiz_data, err, calls, jsonAtTurn, quizAtTurn, quizAtStage,
                    prevJson, remCur, remPrev, prevEnd, found, written, resp, deletes, jobs >>

\* The calls looked at: every table made of some of the keys, in every
\* order; no file; a file that is not a JSON object.
TermsFiles == {NoFile, Malformed} \cup {TableOf(keys) : keys \in UNION {Perms(S) : S \in SUBSET GlossaryKeys}}

InitTerms ==
    /\ videoDir = {Notes}
    /\ api_key = FALSE
    /\ AtRest
    /\ FramesAtRest
    /\ terms_file \in TermsFiles
    /\ video_name \in VideoNames
    /\ terms = NotCalled

NextTerms == load_terms

SpecTerms == InitTerms /\ [][NextTerms]_vars

\* ------------------------------------- app.py: process_video and run_script
Gone   == [stem |-> <<"z">>, ext |-> <<".", "m", "p", "4">>]   \* a name with no file
NoName == [stem |-> << >>,   ext |-> << >>]                    \* video_name missing or ""
RequestedVideos == AllFiles \cup {Gone, NoName}
RequestedModels == {"mistral", "groq", "bogus", ""}

\* run_script: the marker of a job
processing_file(job) == Path(<< job.output_dir >>, job.video.stem, ".processing")

Marker == [kind |-> "processing"]

\* The handler of POST /api/process.  A task it adds waits as "queued".
process_video(video, model) ==
    /\ video \in RequestedVideos
    /\ model \in RequestedModels
    /\ Len(jobs) < MaxJobs
    /\ IF Name(video) = << >> \/ model = ""
         THEN resp' = "400" /\ UNCHANGED jobs
         ELSE IF video \notin videoDir
                THEN resp' = "404" /\ UNCHANGED jobs
                ELSE IF model \notin {"mistral", "groq"}
                       THEN resp' = "400" /\ UNCHANGED jobs
                       ELSE /\ jobs' = Append(jobs,
                                 [script |-> IF model = "mistral"
                                               THEN "transcribe_video.py"
                                               ELSE "transcribe_video_groq.py",
                                  video |-> video,
                                  output_dir |-> IF model = "mistral"
                                                   THEN "output_mistral"
                                                   ELSE "output_groq",
                                  pc |-> "queued",
                                  raised |-> FALSE])
                            /\ resp' = "processing"
    /\ UNCHANGED << fvars, tvars, videoDir, api_key, found, written, disk, pc, run, todo, processed_data, screenshot_paths,
                    quiz_data, err, calls, jsonAtTurn, quizAtTurn, quizAtStage,
                    prevJson, remCur, remPrev, prevEnd, deletes >>

JobFrame ==
    UNCHANGED << fvars, tvars, videoDir, api_key, found, written, pc, run, todo, processed_data, screenshot_paths,
                 quiz_data, err, calls, jsonAtTurn, quizAtTurn, quizAtStage,
                 prevJson, remCur, remPrev, prevEnd, resp, deletes >>

\* run_script starts in a worker thread and writes the marker.
JobMark(j) ==
    /\ j \in 1..Len(jobs)
    /\ jobs[j].pc = "queued"
    /\ disk' = WriteFile(disk, processing_file(jobs[j]), Marker)
    /\ jobs' = [jobs EXCEPT ![j].pc = "launch"]
    /\ JobFrame

\* A launch with a fault seeded: its exception leaves run_script at once.
JobLaunch_NoFinally(j, ok) ==
    /\ j \in 1..Len(jobs)
    /\ jobs[j].pc = "launch"
    /\ jobs' = [jobs EXCEPT ![j].pc = IF ok THEN "running" ELSE "ended",
                            ![j].raised = ~ok]
    /\ UNCHANGED disk
    /\ JobFrame

\* subprocess.run starts the pipeline process, or raises (no such program).
JobLaunch(j, ok) ==
    /\ j \in 1..Len(jobs)
    /\ jobs[j].pc = "launch"
    /\ jobs' = [jobs EXCEPT ![j].pc = IF ok THEN "running" ELSE "finally",
                            ![j].raised = ~ok]
    /\ UNCHANGED disk
    /\ JobFrame

\* subprocess.run returns: the pipeline process has exited.
JobReturn(j) ==
    /\ j \in 1..Len(jobs)
    /\ jobs[j].pc = "running"
    /\ jobs' = [jobs EXCEPT ![j].pc = "finally"]
    /\ UNCHANGED disk
    /\ JobFrame

\* finally: if processing_file.exists()
JobCheckMarker(j) ==
    /\ j \in 1..Len(jobs)
    /\ jobs[j].pc = "finally"
    /\ jobs' = [jobs EXCEPT ![j].pc = IF Exists(disk, processing_file(jobs[j]))
                                       THEN "unlink" ELSE "ended"]
    /\ UNCHANGED disk
    /\ JobFrame

\* finally: processing_file.unlink(), which raises when the file is gone
JobUnlink(j) ==
    /\ j \in 1..Len(jobs)
    /\ jobs[j].pc = "unlink"
    /\ disk' = Unlink(disk, {processing_file(jobs[j])})
    /\ jobs' = [jobs EXCEPT ![j].pc = "ended",
                            ![j].raised = @ \/ ~Exists(disk, processing_file(jobs[j]))]
    /\ JobFrame

\* ------------------------------------------- the process a job has started
\* A turn of the for loop of main that runs to its end, as one step on the
\* disk: the cache files are read when they exist and written when they do
\* not, the screenshot directory is rebuilt, report and quiz page are written.
Turn(d, p, data, quiz) ==
    LET pd    == IF Exists(d, p.json) THEN d[p.json] ELSE data
        d1    == IF Exists(d, p.json) THEN d ELSE WriteFile(d, p.json, pd)
        d2    == SaveFrames(Rebuild(d1, p.shots), p.shots, {KeyName(i) : i \in 0..(pd.n - 1)})
        paths == [i \in 1..pd.n |-> KeyName(i - 1)]
        d3    == WriteFile(d2, p.report, ReportOf(pd, paths))
        qd    == IF Exists(d3, p.quizjson) THEN d3[p.quizjson] ELSE quiz
        d4    == IF Exists(d3, p.quizjson) THEN d3 ELSE WriteFile(d3, p.quizjson, qd)
    IN WriteFile(d4, p.quizpage, QuizPageOf(qd))

\* transcribe_video.py: the paths main builds for a video.  main reads no
\* command line: its directories are Video, output and temp_audio.
main_paths(v) ==
    [json |-> json_file(v), shots |-> screenshot_dir(v), report |-> html_file(v),
     quizjson |-> quiz_json_file(v), quizpage |-> quiz_html_file(v)]

\* transcribe_video_groq.py, after the naming contract of the artifacts:
\* the video of --video, the directory of --output.
groq_paths(job) ==
    LET d == << job.output_dir >>
        v == job.video
    IN [json     |-> Path(d, v.stem, "_transcription.json"),
        shots    |-> Path(d \o <<"screenshots">>, Replace(Name(v)), ""),
        report   |-> Path(d, v.stem, "_report_v2.html"),
        quizjson |-> Path(d, v.stem, "_quiz.json"),
        quizpage |-> Path(d, Replace(Name(v)), "_quiz.html")]

\* The process of a job works through a video.  The process of
\* transcribe_video.py takes the videos of Video one after the other, whatever
\* the job was started for; it may end before it has taken them all.
JobMain(j, v, data, quiz) ==
    /\ j \in 1..Len(jobs)
    /\ jobs[j].pc = "running"
    /\ data \in Distilled
    /\ quiz \in Quizzes
    /\ v \in videoDir
    /\ IsVideo(v)
    /\ IF jobs[j].script = "transcribe_video.py"
         THEN /\ api_key
              /\ disk' = Turn(disk, main_paths(v), data, quiz)
         ELSE /\ v = jobs[j].video
              /\ disk' = Turn(disk, groq_paths(jobs[j]), data, quiz)
    /\ UNCHANGED jobs
    /\ JobFrame

\* a job between the start and the end of run_script
Active(job) == job.pc \in {"launch", "running", "finally", "unlink"}

\* ---------------------------------------------------- app.py: get_reports
\* scan(dir_name): one record per *_report_v2.html, one per *.processing.
\* A URL is modelled by the path it names.
scan(d, dir_name) ==
    { [ video_name |-> f.base,
        model_key  |-> dir_name,
        filename   |-> f,
        report_url |-> f,
        quiz_url   |-> IF Exists(d, Path(<< dir_name >>, f.base, "_quiz.html"))
                         THEN Path(<< dir_name >>, f.base, "_quiz.html")
                         ELSE None,
        status     |-> "completed" ] :
        f \in { q \in DOMAIN d : q.dir = << dir_name >> /\ q.suffix = "_report_v2.html" } }
    \cup
    { [ video_name |-> f.base,
        model_key  |-> dir_name,
        filename   |-> f,
        report_url |-> None,
        quiz_url   |-> None,
        status     |-> "processing" ] :
        f \in { q \in DOMAIN d : q.dir = << dir_name >> /\ q.suffix = ".processing" } }

\* The records of GET /api/reports; their order (by modification time) is
\* left out.
get_reports(d) == UNION { scan(d, dir_name) : dir_name \in ModelKeys }

NextWeb ==
    \/ \E video \in RequestedVideos, model \in RequestedModels : process_video(video, model)
    \/ \E j \in 1..MaxJobs : JobMark(j)
    \/ \E j \in 1..MaxJobs, ok \in BOOLEAN : JobLaunch(j, ok)
    \/ \E j \in 1..MaxJobs : JobReturn(j)
    \/ \E j \in 1..MaxJobs : JobCheckMarker(j)
    \/ \E j \in 1..MaxJobs : JobUnlink(j)

SpecWeb == Init /\ [][NextWeb]_vars

\* The web layer together with what the processes of its jobs write.  The
\* processes write no marker, so SpecWeb is this specification seen through
\* the jobs and their markers.
NextJobs ==
    \/ NextWeb
    \/ \E j \in 1..MaxJobs, v \in AllFiles, data \in Distilled, quiz \in Quizzes :
            JobMain(j, v, data, quiz)

SpecJobs == Init /\ [][NextJobs]_vars


\* ======================================================== the properties
Videos == {f \in videoDir : IsVideo(f)}

\* a snapshot that found the file
IsHit(c) == c.kind \notin {"na", "absent"}

UpstreamCalls(v) == calls[v]["extract"] + calls[v]["transcribe"] + calls[v]["distill"]

\* main is in the turn of v, at one of the given positions
InTurn(v, positions) == pc \in positions /\ todo # << >> /\ Head(todo) = v

AfterLoad == {"shots", "html", "quiz", "genquiz", "savequiz", "quizhtml"}
AfterReport == {"quiz", "genquiz", "savequiz", "quizhtml"}

\* C1: a video whose <stem>_transcription.json existed when its turn started
\* has no audio extraction, no transcription call and no distillation call in
\* that run; the later stages of the turn work on the cached content, and the
\* report the turn writes is rendered from it.
C1_CacheHitSkipsUpstream ==
    \A v \in AllFiles :
        IsHit(jsonAtTurn[v]) =>
            /\ UpstreamCalls(v) = 0
            /\ InTurn(v, AfterLoad) => processed_data = jsonAtTurn[v]
            /\ (InTurn(v, AfterReport) /\ Exists(disk, html_file(v))) =>
                   disk[html_file(v)].summary = jsonAtTurn[v].summary

C1_Witness ==
    \E v \in AllFiles :
        /\ jsonAtTurn[v] \in Distilled
        /\ InTurn(v, {"quiz"})
        /\ Exists(disk, html_file(v))

\* C2 (as claimed): a failure in audio extraction, transcription or
\* distillation of a video never ends the batch: main is not left by the
\* exception of such a failure.
C2_UpstreamFailureIsCaught ==
    \A v \in AllFiles :
        ~ (InTurn(v, {"crashed"}) /\ err[v] \in {"extract", "transcribe", "distill"})

\* C3 (as claimed): a temp audio file exists only while main is inside the
\* extraction-through-distillation sequence of its video; once the sequence
\* has been left, on any path, the file is gone.
C3_NoTempAudioLeft ==
    \A v \in AllFiles :
        Exists(disk, audio_path(v)) => InTurn(v, {"transcribe", "distill", "save"})

NoRemoval == ~remCur /\ ~remPrev

SecondRunReuses(v) ==
    /\ calls[v]["transcribe"] = 0
    /\ calls[v]["distill"] = 0
    /\ Content(disk, json_file(v)) = prevJson[v]

\* C4 (as claimed): in a run that follows a run that came to its end, with no
\* cache file removed since the earlier run started, no video has a transcription or a
\* distillation call, and its <stem>_transcription.json is what it was when
\* the earlier run ended.
C4_SecondRunNeverRecomputes ==
    (run >= 2 /\ prevEnd = "done" /\ NoRemoval) => \A v \in Videos : SecondRunReuses(v)

\* C4 (amended): the same, for the videos whose <stem>_transcription.json
\* existed when the earlier run ended.
C4_SecondRunReusesCache ==
    (run >= 2 /\ prevEnd = "done" /\ NoRemoval) =>
        \A v \in Videos : prevJson[v] # Absent => SecondRunReuses(v)

C4_Witness ==
    /\ run = 2
    /\ prevEnd = "done"
    /\ NoRemoval
    /\ pc = "done"
    /\ \E v \in Videos :
          /\ prevJson[v] \in Distilled
          /\ calls[v]["quizpage"] = 1
          /\ err[v] = "none"


\* ----------------------------------------------------------- the web jobs
JobIds == 1..Len(jobs)

SameKey(a, b) == a.video = b.video /\ a.output_dir = b.output_dir

\* C5 (as claimed): no two jobs for the same video and model are between the
\* start and the end of run_script at the same moment.
C5_OneJobPerKey ==
    \A i \in JobIds, j \in JobIds :
        (i # j /\ Active(jobs[i]) /\ Active(jobs[j])) => ~SameKey(jobs[i], jobs[j])

\* C6 (as claimed): while a job is executing the pipeline subprocess, the
\* marker <output-dir>/<video-stem>.processing of its video exists.
C6_MarkerWhileWorking ==
    \A j \in JobIds :
        jobs[j].pc = "running" => Exists(disk, processing_file(jobs[j]))

\* C7: a marker <output-dir>/<stem>.processing exists only while some job for
\* that video stem and output directory has started and not yet ended; once
\* every job of a key has ended, by a return or by an exception of the
\* subprocess launch, the marker of the key does not exist.
C7_MarkerOnlyWhileActive ==
    /\ \A p \in DOMAIN disk :
          p.suffix = ".processing" =>
              \E j \in JobIds :
                  /\ Active(jobs[j])
                  /\ jobs[j].video.stem = p.base
                  /\ << jobs[j].output_dir >> = p.dir
    /\ \A j \in JobIds :
          (\A k \in JobIds : SameKey(jobs[j], jobs[k]) => jobs[k].pc = "ended")
              => ~Exists(disk, processing_file(jobs[j]))

C7_Witness ==
    \E i \in JobIds, j \in JobIds :
        /\ jobs[i].pc = "ended"
        /\ jobs[i].raised
        /\ ~Exists(disk, processing_file(jobs[i]))
        /\ jobs[j].pc = "running"
        /\ Exists(disk, processing_file(jobs[j]))

\* ------------------------------------------------- the second try of a turn
\* the turn of v in the current run is over
TurnOver(v) == jsonAtTurn[v] # NA /\ \A i \in 1..Len(todo) : todo[i] # v

RenderFailures == {"shots", "html", "quizgen", "quizhtml"}

\* a step in which frame selection, report rendering, quiz synthesis or quiz
\* rendering of v raises
RenderFailure(v) ==
    /\ InTurn(v, {"shots", "html", "genquiz", "quizhtml"})
    /\ err[v] = "none"
    /\ err'[v] \in RenderFailures

\* C8: a failure in frame selection, report rendering, quiz synthesis or quiz
\* rendering of a video leaves its <stem>_transcription.json and its
\* <stem>_quiz.json as they were, and the for loop goes on: to the next video
\* when there is one, to its end otherwise.
C8_RenderFailureKeepsCaches ==
    [][ \A v \in AllFiles :
            RenderFailure(v) =>
                /\ Content(disk', json_file(v)) = Content(disk, json_file(v))
                /\ Content(disk', quiz_json_file(v)) = Content(disk, quiz_json_file(v))
                /\ todo' = Tail(todo)
                /\ pc' = IF Tail(todo) = << >> THEN "done" ELSE "loop" ]_vars

C8_Witness ==
    \E v \in AllFiles :
        /\ TurnOver(v)
        /\ err[v] \in RenderFailures
        /\ Content(disk, json_file(v)) \in Distilled
        /\ Content(disk, quiz_json_file(v)) \in Quizzes
        /\ pc = "loop"

\* C9: when <stem>_quiz.json exists as the quiz stage of a video is reached,
\* the quiz call is not made in that run, the file is not rewritten, and the
\* quiz page the turn writes is rendered from the cached quiz.
C9_QuizCacheHit ==
    \A v \in AllFiles :
        IsHit(quizAtStage[v]) =>
            /\ calls[v]["quiz"] = 0
            /\ Exists(disk, quiz_json_file(v)) => disk[quiz_json_file(v)] = quizAtStage[v]
            /\ InTurn(v, {"quizhtml"}) => quiz_data = quizAtStage[v]
            /\ ( /\ TurnOver(v)
                 /\ err[v] = "none"
                 /\ calls[v]["quizpage"] = 1
                 /\ Exists(disk, quiz_html_file(v)) )
                   => disk[quiz_html_file(v)] = QuizPageOf(quizAtStage[v])

C9_Witness ==
    \E v \in AllFiles :
        /\ quizAtStage[v] \in Quizzes
        /\ TurnOver(v)
        /\ err[v] = "none"
        /\ calls[v]["quizpage"] = 1
        /\ Exists(disk, quiz_html_file(v))

\* C10 (as claimed): a well-formed artifact that exists when the turn of a video starts
\* keeps its stage and every stage upstream of it from running in that run:
\* the transcription artifact keeps extraction, transcription and
\* distillation from running, and the quiz artifact keeps quiz synthesis and
\* also extraction, transcription and distillation from running.
C10_ArtifactSkipsStageAndUpstream ==
    \A v \in AllFiles :
        /\ jsonAtTurn[v] \in Distilled => UpstreamCalls(v) = 0
        /\ quizAtTurn[v] \in Quizzes => (calls[v]["quiz"] = 0 /\ UpstreamCalls(v) = 0)

\* C10 (amended): each stage is guarded by its own artifact, at its own check:
\* the transcription artifact found when the turn starts keeps extraction,
\* transcription and distillation from running, and the quiz artifact found
\* when the quiz stage is reached keeps quiz synthesis from running.
C10_ArtifactSkipsOwnStage ==
    \A v \in AllFiles :
        /\ IsHit(jsonAtTurn[v]) => UpstreamCalls(v) = 0
        /\ IsHit(quizAtStage[v]) => calls[v]["quiz"] = 0

C10_Witness ==
    \E v \in AllFiles :
        /\ jsonAtTurn[v] \in Distilled
        /\ quizAtTurn[v] \in Quizzes
        /\ quizAtStage[v] \in Quizzes
        /\ TurnOver(v)
        /\ calls[v]["shots"] = 1

\* ------------------------------------------------ the cache, once written
\* C11: once <stem>_transcription.json of a video is on disk, no step of the
\* batch, in the run that wrote it or in a later run, rewrites it or changes
\* its content: a step that finds the file and leaves it on disk leaves it as
\* it was.  Only a delete request takes the file away.
C11_DistilledWrittenOnce ==
    [][ \A v \in AllFiles :
            /\ (Exists(disk, json_file(v)) /\ Exists(disk', json_file(v)))
                   => disk'[json_file(v)] = disk[json_file(v)]
            /\ (Exists(disk, json_file(v)) /\ ~Exists(disk', json_file(v)))
                   => (deletes' = deletes + 1 /\ resp' = "deleted") ]_vars

C11_Witness ==
    \E v \in Videos :
        /\ run = 2
        /\ prevJson[v] \in Distilled
        /\ jsonAtTurn[v] = prevJson[v]
        /\ Content(disk, json_file(v)) = prevJson[v]
        /\ TurnOver(v)
        /\ calls[v]["shots"] = 1
        /\ calls[v]["report"] = 1

\* ------------------------------------------------------ the frame selector
\* C12: a run of the frame selector that succeeds over the n key moments of a
\* video leaves in the screenshot directory of the video exactly the n files
\* key_000.jpg .. key_{n-1}.jpg, whatever the directory held before: no file
\* of an earlier run is left.
C12_ScreenshotDirRebuilt ==
    [][ \A v \in AllFiles :
            (InTurn(v, {"shots"}) /\ pc' = "html") =>
                /\ Exists(disk', screenshot_dir(v))
                /\ disk'[screenshot_dir(v)] =
                       Dir({KeyName(i) : i \in 0..(processed_data.n - 1)}) ]_vars

\* the selector has rebuilt a directory that held more frames than the video
\* has key moments now
C12_Witness ==
    \E v \in AllFiles :
        /\ InTurn(v, {"html"})
        /\ found[v].shots.kind = "dir"
        /\ Cardinality(found[v].shots.files) > processed_data.n
        /\ Cardinality(disk[screenshot_dir(v)].files) = processed_data.n

\* "key_" + three digits + ".jpg", for an index below 1000
ThreeDigitName(i) == << "key_", << i \div 100, (i \div 10) % 10, i % 10 >>, ".jpg" >>

\* C13: a call of the frame selector that returns, over n key moments, returns
\* exactly n names, the i-th (from 0) being key_ + i in three digits + .jpg;
\* the frame of that name is in the directory, and the report has exactly one
\* row per key moment, the i-th row showing the i-th name.
C13_OneScreenshotPerMoment ==
    /\ fpc \in {"returned", "rendered"} =>
          /\ Len(shot_paths) = Len(segments)
          /\ \A i \in 0..(Len(segments) - 1) :
                /\ shot_paths[i + 1] = ThreeDigitName(i)
                /\ \E x \in shot_files.frames : x.name = ThreeDigitName(i)
          /\ Cardinality(shot_files.frames) = Len(segments)
    /\ fpc = "rendered" =>
          /\ Len(rows) = Len(segments)
          /\ \A i \in 0..(Len(segments) - 1) : rows[i + 1] = ThreeDigitName(i)

C13_Witness ==
    /\ fpc = "rendered"
    /\ Len(segments) > 10
    /\ rows[11] = << "key_", << 0, 1, 0 >>, ".jpg" >>

\* the loop over the moments has finished at least one turn; its locals are
\* those of the moment LastMoment
SomeTurnDone == fpc # "idle" /\ Len(shot_paths) >= 1
LastMoment == segments[Len(shot_paths)]
LastDuration == LastMoment.end - LastMoment.start

\* C14: the number of candidate times of a moment of duration d is d / 3
\* seconds, cut to a whole number and held between 2 and 5: always 2..5,
\* exactly 2 for d = 0, exactly 3 for d = 9 s, exactly 5 for every d >= 18 s,
\* and in between the whole part of d / 3.
C14_CandidateCount ==
    SomeTurnDone =>
        LET c == Len(candidate_times)
            d == LastDuration
        IN /\ c \in 2..5
           /\ d = 0 => c = 2
           /\ d = 9 * Second => c = 3
           /\ d >= 18 * Second => c = 5
           /\ d < 6 * Second => c = 2
           /\ (6 * Second <= d /\ d < 15 * Second) =>
                  (3 * Second * c <= d /\ d < 3 * Second * (c + 1))
           /\ d >= 15 * Second => c = 5

C14_Witness ==
    /\ SomeTurnDone
    /\ LastDuration = 9 * Second
    /\ Len(candidate_times) = 3

\* C15: the k-th candidate time (k from 0) of a moment [start, end] with c
\* candidates is the smaller of start + (end - start) * (k+1) / (c+1) and the
\* video duration less 0.1 s, so no candidate is later than that; and the list
\* depends on start, end and the video duration only: a turn over the same
\* interval as the turn before it yields the same list.
C15_CandidateTimes ==
    /\ [] ( SomeTurnDone =>
              LET c == Len(candidate_times)
                  cap == video_duration - Tenth
              IN \A k \in 0..(c - 1) :
                    LET t == candidate_times[k + 1]
                        num == LastMoment.start * (c + 1) + LastDuration * (k + 1)
                    IN /\ t <= cap
                       /\ IF num <= cap * (c + 1) THEN t * (c + 1) = num ELSE t = cap )
    /\ [][ ( /\ SomeTurnDone
             /\ Len(shot_paths') = Len(shot_paths) + 1
             /\ segments[Len(shot_paths')] = LastMoment )
               => candidate_times' = candidate_times ]_vars

\* a second turn over the same interval, with a candidate held at the end of
\* the video and an earlier one that is not
C15_Witness ==
    /\ SomeTurnDone
    /\ Len(shot_paths) >= 2
    /\ segments[1] = segments[2]
    /\ \E j \in 1..Len(candidate_times), k \in 1..Len(candidate_times) :
          /\ candidate_times[j] = video_duration - Tenth
          /\ candidate_times[k] < video_duration - Tenth
          /\ candidate_times[k] > LastMoment.start

\* the richness of the j-th candidate of the last turn
ScoreAt(j) == Std(frame_std, candidate_times[j])

Matching == {j \in 1..Len(terms_file.items) :
                /\ terms_file.items[j].key # KeyDefault
                /\ Occurs(terms_file.items[j].key, video_name)}

\* load_terms has returned from a table
LoadedFromTable == terms_file.kind = "table" /\ terms # NotCalled

\* C17: when keys of the table other than "default" occur in the video name,
\* the matcher returns the entry of the one that comes first in the table; the
\* order of the table decides, not the length of the key and not the place
\* where it occurs in the name.
C17_FirstDeclaredKeyWins ==
    (LoadedFromTable /\ Matching # {}) =>
        \E j \in Matching :
            /\ \A k \in Matching : j <= k
            /\ terms = terms_file.items[j].terms

\* the table intro, safety, default on intro_safety_lecture.mp4: intro is
\* returned, although safety is longer
C17_Witness ==
    /\ LoadedFromTable
    /\ video_name = IntroSafetyLecture
    /\ Len(terms_file.items) = 3
    /\ terms_file.items[1].key = KeyIntro
    /\ terms_file.items[2].key = KeySafety
    /\ terms_file.items[3].key = KeyDefault
    /\ terms = EntryOf(KeyIntro)

HasDefault == \E j \in 1..Len(terms_file.items) : terms_file.items[j].key = KeyDefault

\* C18: when no key of the table other than "default" occurs in the video
\* name the matcher returns the entry of "default"; when the table has no such
\* entry it returns the empty glossary; and when there is no glossary file it
\* returns the empty glossary and raises nothing.
C18_DefaultOrEmptyGlossary ==
    /\ (LoadedFromTable /\ Matching = {} /\ HasDefault) => terms = EntryOf(KeyDefault)
    /\ (LoadedFromTable /\ Matching = {} /\ ~HasDefault) => terms = EmptyGlossary
    /\ (terms_file = NoFile /\ terms # NotCalled) => terms = EmptyGlossary

\* a table with keys, none of them in the name and none of them "default"
C18_Witness ==
    /\ LoadedFromTable
    /\ Len(terms_file.items) >= 2
    /\ Matching = {}
    /\ ~HasDefault
    /\ terms = EmptyGlossary
    /\ terms.corrections = {} /\ terms.key_terms = << >> /\ terms.topic_hint = << >>

\* ------------------------------------------------ the quiz stage of a turn
\* a step in which the quiz call of v, or json.loads of its answer, raises
QuizSynthesisFails(v) ==
    /\ InTurn(v, {"genquiz"})
    /\ err[v] = "none"
    /\ err'[v] = "quizgen"

\* C19: main comes to the quiz stage of a video only by the step that writes
\* the report of the video; and a failure of quiz synthesis leaves the report
\* and the screenshots as they are, writes no <stem>_quiz.json, and lets the
\* for loop go on.
C19_QuizFailureIsolated ==
    [][ \A v \in AllFiles :
            /\ (InTurn(v, {"html"}) /\ pc' = "quiz") =>
                   /\ Exists(disk', html_file(v))
                   /\ disk'[html_file(v)] = ReportOf(processed_data, screenshot_paths)
                   /\ "report" \in written'[v]
            /\ (todo' # << >> /\ Head(todo') = v /\ pc' \in AfterReport) =>
                   "report" \in written'[v]
            /\ QuizSynthesisFails(v) =>
                   /\ Content(disk', html_file(v)) = Content(disk, html_file(v))
                   /\ Content(disk', screenshot_dir(v)) = Content(disk, screenshot_dir(v))
                   /\ ~Exists(disk', quiz_json_file(v))
                   /\ "quizjson" \notin written'[v]
                   /\ todo' = Tail(todo)
                   /\ pc' = IF Tail(todo) = << >> THEN "done" ELSE "loop" ]_vars

\* quiz synthesis of a video has failed: its report and screenshots are on
\* disk, no quiz JSON is, and the loop is at the next video
C19_Witness ==
    \E v \in AllFiles :
        /\ TurnOver(v)
        /\ err[v] = "quizgen"
        /\ "report" \in written[v]
        /\ Exists(disk, html_file(v))
        /\ Exists(disk, screenshot_dir(v))
        /\ ~Exists(disk, quiz_json_file(v))
        /\ pc = "loop"

\* ------------------------------------------------ rendering, run after run
\* the distilled content of v was at hand in the current run: loaded from the
\* cache, or produced and saved
ContentAvailable(v) == jsonAtTurn[v] \in Distilled \/ "json" \in written[v]

Range(s) == {s[i] : i \in 1..Len(s)}

\* the answer of a question keeps to the schema
AnswerValid(q) ==
    /\ Range(q.answer) \subseteq q.options
    /\ q.type = "single" => Len(q.answer) = 1
    /\ q.type = "multiple" => (2 <= Len(q.answer) /\ Len(q.answer) <= 3)

\* C21 (as claimed): every question of a quiz that the pipeline has generated
\* and written to <stem>_quiz.json has an answer list within the keys of its
\* options, of exactly 1 element when its type is single and of 2 to 3
\* elements when its type is multiple.
C21_PersistedQuizIsValid ==
    \A v \in AllFiles :
        ("quizjson" \in written[v] /\ Content(disk, quiz_json_file(v)).kind = "quiz") =>
            \A q \in Range(disk[quiz_json_file(v)].questions) : AnswerValid(q)

\* ------------------------------------------------- a directory without videos
\* no file of the Video directory has one of the four extensions, in any case
NoRecognizedFile == \A f \in videoDir : Lower(f.ext) \notin video_extensions

\* C22: when no file of the Video directory has a recognized extension, a run
\* of main returns at once: no extraction, no transcription, no chat call, no
\* frame selection and no rendering is called for any file, and no artifact
\* is written.
C22_NoVideosCleanReturn ==
    (NoRecognizedFile /\ run >= 1) =>
        /\ pc = "done"
        /\ todo = << >>
        /\ \A f \in AllFiles :
              /\ \A s \in Stages : calls[f][s] = 0
              /\ written[f] = {}
              /\ err[f] = "none"
        /\ disk = EmptyDisk

\* main has run, with an API key, on a directory that holds a file but no video
C22_Witness ==
    /\ NoRecognizedFile
    /\ videoDir # {}
    /\ api_key
    /\ run >= 1
    /\ pc = "done"

\* ------------------------------------------------- a cache that cannot be read
\* C23: when the <stem>_transcription.json found at the start of a turn is
\* truncated or malformed, main is left by the exception of json.load: no
\* stage is called for the video, nothing is written for it, the file is not
\* replaced, and the turn does not go on.
C23_CorruptCacheFailsLoudly ==
    \A v \in AllFiles :
        jsonAtTurn[v] = Corrupt =>
            /\ InTurn(v, {"crashed"})
            /\ err[v] = "cacheload"
            /\ \A s \in Stages : calls[v][s] = 0
            /\ written[v] = {}
            /\ Content(disk, json_file(v)) \in {Corrupt, Absent}
            /\ Content(disk, json_file(v)) = Absent => remCur

C23_Witness ==
    \E v \in AllFiles :
        /\ jsonAtTurn[v] = Corrupt
        /\ pc = "crashed"
        /\ err[v] = "cacheload"
        /\ Content(disk, json_file(v)) = Corrupt

\* --------------------------------------------- when the cache file is written
UpstreamFailures == {"extract", "transcribe", "distill"}

\* C24: <stem>_transcription.json is created or rewritten only by the step
\* that follows a successful transcription call and a successful distillation
\* call of the same turn; a video that had no cache when its turn started and
\* whose extraction, transcription or distillation failed has no
\* transcription file afterwards; and a turn that finds no cache file calls
\* the extraction again.
C24_CacheOnlyAfterDistillation ==
    /\ [](\A v \in AllFiles :
            /\ (err[v] \in UpstreamFailures /\ jsonAtTurn[v] = Absent) =>
                  /\ ~Exists(disk, json_file(v))
                  /\ "json" \notin written[v]
            /\ (prevJson[v] = Absent /\ jsonAtTurn[v] # NA) =>
                  /\ jsonAtTurn[v] = Absent
                  /\ InTurn(v, {"extract"}) \/ calls[v]["extract"] = 1)
    /\ [][\A v \in AllFiles :
            Content(disk', json_file(v)) \notin {Absent, Content(disk, json_file(v))} =>
                /\ InTurn(v, {"save"})
                /\ calls[v]["transcribe"] = 1
                /\ calls[v]["distill"] = 1
                /\ err[v] = "none"]_vars

C24_Witness ==
    \E v \in AllFiles :
        /\ run = 2
        /\ prevEnd = "crashed"
        /\ prevJson[v] = Absent
        /\ jsonAtTurn[v] = Absent
        /\ err[v] = "distill"
        /\ calls[v]["extract"] = 1
        /\ ~Exists(disk, json_file(v))

\* ------------------------------------- candidate times, moment and video
\* C29 as stated: every candidate time of a moment with start <= end lies in
\* the interval of the moment and in the video, start <= t <= end and
\* 0 <= t <= video.duration - 0.1, wherever the moment starts.
C29_CandidatesInsideMomentAndVideo ==
    (SomeTurnDone /\ LastDuration >= 0) =>
        \A j \in 1..Len(candidate_times) :
            LET t == candidate_times[j] IN
            /\ LastMoment.start <= t /\ t <= LastMoment.end
            /\ 0 <= t /\ t <= video_duration - Tenth

\* C29: every candidate time of a moment with start <= end is at most the end
\* of the moment and at most video.duration - 0.1; it is at least the start of
\* the moment exactly when the moment starts at or before video.duration - 0.1,
\* and for a moment that starts later every candidate is video.duration - 0.1;
\* it is at least 0 when the start is and the video lasts 0.1 s or more.
C29_CandidatesBeforeEndOfMomentAndVideo ==
    (SomeTurnDone /\ LastDuration >= 0) =>
        LET cap == video_duration - Tenth IN
        \A j \in 1..Len(candidate_times) :
            LET t == candidate_times[j] IN
            /\ t <= LastMoment.end
            /\ t <= cap
            /\ (LastMoment.start <= t) <=> (LastMoment.start <= cap)
            /\ LastMoment.start > cap => t = cap
            /\ (LastMoment.start >= 0 /\ video_duration >= Tenth) => 0 <= t

\* a moment inside the video, then a moment that starts after its end
C29_Witness ==
    /\ Len(shot_paths) >= 2
    /\ LastDuration >= 0
    /\ segments[Len(shot_paths) - 1].start <= video_duration - Tenth
    /\ LastMoment.start > video_duration - Tenth
    /\ \A j \in 1..Len(candidate_times) : candidate_times[j] = video_duration - Tenth
    /\ Len(candidate_times) >= 2

\* ------------------------------------------- delete_report, artifact by artifact
\* what the turn of a video writes into the output directory
ArtifactPaths(v) ==
    {json_file(v), screenshot_dir(v), html_file(v), quiz_json_file(v), quiz_html_file(v)}

\* C27: a delete request with an invalid model key is answered with an error
\* and deletes nothing; a successful delete request for the stem of a video
\* whose turn has written all its artifacts (the request that takes the report
\* of the video away) leaves none of them: report, quiz page, quiz JSON,
\* transcription JSON and screenshot directory are gone.
C27_DeleteRemovesEveryArtifact ==
    [][ (deletes' = deletes + 1) =>
          /\ resp' \in {"400", "deleted"}
          /\ resp' = "400" => disk' = disk
          /\ \A v \in AllFiles :
                ( /\ written[v] = Artifacts
                  /\ Exists(disk, html_file(v))
                  /\ ~Exists(disk', html_file(v)) )
                    => \A p \in ArtifactPaths(v) : ~Exists(disk', p) ]_vars

\* ------------------------------------------------ the listing and the quiz page
\* C28: when the report and the quiz page of a video have both been written
\* by the pipeline and are in the output directory, the listing has a
\* completed record for the video, and the quiz_url of that record is not
\* null and names the quiz page the pipeline wrote.
C28_ListingNamesQuizPage ==
    \A v \in AllFiles :
        ( /\ {"report", "quizpage"} \subseteq written[v]
          /\ Exists(disk, html_file(v))
          /\ Exists(disk, quiz_html_file(v)) )
            => /\ \E r \in get_reports(disk) :
                     /\ r.filename = html_file(v)
                     /\ r.status = "completed"
               /\ \A r \in get_reports(disk) :
                     (r.filename = html_file(v) /\ r.status = "completed")
                         => /\ r.quiz_url # None
                            /\ r.quiz_url = quiz_html_file(v)

\* ------------------------------------------- what the process of a job writes
\* a job whose process has been started
Launched(job) == job.pc \in {"running", "finally", "unlink", "ended"}

\* C25: every artifact on the disk has been written by the process of a job
\* started for its video and its model: it lies in the output directory of
\* the job, the directory of the marker, and carries the stem or the
\* sanitized name of the video of the job.
C25_JobWritesItsVideoInItsDirectory ==
    \A p \in DOMAIN disk :
        p.suffix # ".processing" =>
            \E j \in 1..Len(jobs) :
                /\ Launched(jobs[j])
                /\ p.dir[1] = processing_file(jobs[j]).dir[1]
                /\ p.base \in {jobs[j].video.stem, Replace(Name(jobs[j].video))}

\* ------------------------------------------------ one record per video and model
\* C26: the listing has at most one record for an output directory and a
\* video stem; the record says processing when the marker of the stem is in
\* the directory, and completed otherwise.
C26_OneRecordPerKey ==
    \A r \in get_reports(disk) :
        /\ \A q \in get_reports(disk) :
              (q.model_key = r.model_key /\ q.video_name = r.video_name) => q = r
        /\ r.status = IF Exists(disk, Path(<< r.model_key >>, r.video_name, ".processing"))
                        THEN "processing" ELSE "completed"

====
